---------------------------- MODULE Spec2Model ----------------------------
(***************************************************************************)
(* Model of src/ux/doc_gradio.py: the Gradio front-end of the Dwani.ai     *)
(* document chat.  The state is the module-level globals (uploaded_files,  *)
(* chat_history, selected_files) and the values of the two UI components   *)
(* that handlers read back (the file_checkboxes choices and the chatbot    *)
(* history).  Every event handler is one action; the backend's answers are *)
(* the actions' inputs, and what a handler returns to its write-only       *)
(* outputs (status_output, files_display, msg_input, file_count) is kept   *)
(* in the record of the last call.                                         *)
(*                                                                         *)
(* Abstractions: a Python dict is a function on a finite domain and a list *)
(* of checkbox choices is a set (insertion order is dropped); a text is a  *)
(* sequence of characters where the code inspects it (message.strip()) and *)
(* a structured value where the code only concatenates it.                 *)
(***************************************************************************)
EXTENDS Integers, Sequences, FiniteSets, TLC

VARIABLES
    uploaded_files,   \* global dict: file_id -> info dict           (line 41)
    chat_history,     \* global list of {role, content} turns        (line 42)
    selected_files,   \* global list of selected file ids (as a set) (line 43)
    file_checkboxes,  \* choices of the CheckboxGroup: {<<filename, file_id>>}
    chatbot,          \* displayed history of the Chatbot component
    last,             \* the last handler call: its inputs, outcome and return values
    sent,             \* the client.chat payloads the last handler call issued
    pollI,            \* poll_file_status run on its own: loop iterations started
    pollCalls,        \*   get_file_status calls issued
    pollAns,          \*   answer of the latest get_file_status call
    pollRet,          \*   value returned, or Sleep while the loop runs
    inflight,         \* send_message calls waiting at client.chat or between their appends
    accepted          \* send_message calls that passed the checks, when run interleaved

vars == <<uploaded_files, chat_history, selected_files, file_checkboxes, chatbot,
          last, sent, pollI, pollCalls, pollAns, pollRet, inflight, accepted>>

appVars == <<uploaded_files, chat_history, selected_files, file_checkboxes, chatbot,
             last, sent>>

pollVars == <<pollI, pollCalls, pollAns, pollRet>>

asyncVars == <<inflight, accepted>>

---------------------------------------------------------------------------
(* Bounds of the model *)

MaxBatch == 2      \* files in one upload batch
MaxList == 2       \* entries in one list_files response
MaxTurns == 2      \* accepted chat round-trips shown in the chatbot
MaxMsgLen == 1     \* characters in a typed message
MaxLead == 1       \* scripted get_file_status answers before the backend settles
MaxSources == 1    \* sources in one chat response
MaxCalls == 2      \* send_message calls accepted when handlers run interleaved

(* Program constants *)

max_wait == 60
SourceCap == 5
ExcerptCap == 120

---------------------------------------------------------------------------
(* Values *)

None == "None"
FileIds == {"f1", "f2"}
Names == {"a.pdf"}
Statuses == {"pending", "processing", "completed", "failed"}
Chars == {" ", "a"}
Whitespace == {" "}
Answer == "ans"
WARNING == "Please select files first!"

Has(d, k) == k \in DOMAIN d
Drop(d, k) == [x \in DOMAIN d \ {k} |-> d[x]]
Put(d, k, v) == [x \in DOMAIN d \cup {k} |-> IF x = k THEN v ELSE d[x]]
EmptyDict == [x \in {} |-> x]
Values(d) == {d[k] : k \in DOMAIN d}
SeqsUpTo(S, n) == UNION {[1..m -> S] : m \in 0..n}
Min(a, b) == IF a < b THEN a ELSE b
IsPrefix(s, t) == Len(s) <= Len(t) /\ SubSeq(t, 1, Len(s)) = s


---------------------------------------------------------------------------
(* poll_file_status, lines 45-54 *)

\* What one client.get_file_status call can give the loop: a body with one of
\* the four statuses, or "error": the call raised (connection, HTTP status) or
\* the body has no 'status' key, both caught by the bare except of line 53.
Answers == Statuses \cup {"error"}

\* A scripted backend: the answers to the 1st, 2nd, ... status call for one
\* file. head is answered call by call, then tail for ever.
get_file_status(backend, i) ==
    IF i <= Len(backend.head) THEN backend.head[i] ELSE backend.tail

\* One pass of the loop body (lines 48-53) on the answer of its status call:
\* the value returned, or Sleep to sleep and go round again.
Sleep == [returned |-> FALSE]
Return(status, success) == [returned |-> TRUE, status |-> status, success |-> success]
\* Mutant: a 'failed' answer does not end the polling.
PollBody_IgnoresFailed(answer) ==
    IF answer = "completed" THEN Return(answer, TRUE) ELSE Sleep

\* Mutant: a status call that raises ends the polling as a failure.
PollBody_ErrorEndsPolling(answer) ==
    IF answer = "completed" THEN Return(answer, TRUE)
    ELSE IF answer \in {"failed", "error"} THEN Return("failed", FALSE)
    ELSE Sleep

PollBody(answer) ==
    IF answer = "error" THEN Sleep
    ELSE IF answer = "completed" THEN Return(answer, TRUE)
    ELSE IF answer = "failed" THEN Return(answer, FALSE)
    ELSE Sleep

\* for _ in range(max_wait): ...; return {'status': 'timeout'}, False
\* i is the pass about to run; calls counts the status calls issued.
RECURSIVE PollLoop(_, _)
PollLoop(backend, i) ==
    IF i > max_wait
    THEN [status |-> "timeout", success |-> FALSE, calls |-> i - 1]
    ELSE LET r == PollBody(get_file_status(backend, i))
         IN  IF ~r.returned THEN PollLoop(backend, i + 1)
             ELSE [status |-> r.status, success |-> r.success, calls |-> i]

poll_file_status(backend) == PollLoop(backend, 1)

---------------------------------------------------------------------------
(* upload_multiple, lines 56-94 *)

\* The body client.upload_file returns: {file_id, filename, status}, or one
\* with a key missing.
GoodUploadResults == [file_id : FileIds, filename : Names, status : {"pending"}]
BadUploadResults ==
    {Drop(r, "file_id") : r \in GoodUploadResults} \cup
    {Drop(r, "filename") : r \in GoodUploadResults}

\* What the backend does for one file of a batch: the upload call raises, or
\* returns a body; after a good body it answers the status polls.
UploadBackends ==
    [head : SeqsUpTo({"error"}, MaxLead), tail : {"processing", "completed", "failed"}]
UploadOutcomes ==
    {[raises |-> TRUE]} \cup
    {[raises |-> FALSE, result |-> r] : r \in BadUploadResults} \cup
    [raises : {FALSE}, result : GoodUploadResults, backend : UploadBackends]

\* poll_file_status against each scripted backend, computed once and looked up.
PollTable == {<<backend, poll_file_status(backend)>> : backend \in UploadBackends}
PollOutcome(backend) == (CHOOSE row \in PollTable : row[1] = backend)[2]

\* acc carries the registry, status_msgs, and the log of what happened to
\* each file of the batch so far.

\* Lines 87-88: the except branch, for the file at `path`.
UploadFailed(acc, path, e) ==
    [acc EXCEPT !.msgs = Append(@, [mark |-> "ERROR", path |-> path, err |-> e]),
                !.log = Append(@, [uploaded |-> FALSE, file_id |-> None,
                                   filename |-> None, poll |-> None])]

\* Lines 68-85: the registry entry, the polling and the report line, once the
\* upload call returned.
UploadPolled(acc, out) ==
    LET file_id == out.result.file_id
        filename == out.result.filename
        pending == Put(acc.reg, file_id,
                       [filename |-> filename, status |-> "pending", file_id |-> file_id])
        p == PollOutcome(out.backend)
    IN  [reg |-> [pending EXCEPT ![file_id].status =
                     IF p.success THEN "completed" ELSE "failed"],
         msgs |-> Append(acc.msgs,
                     [mark |-> IF p.success THEN "READY" ELSE "FAILED",
                      name |-> filename]),
         log |-> Append(acc.log, [uploaded |-> TRUE, file_id |-> file_id,
                                  filename |-> filename, poll |-> p.status,
                                  calls |-> p.calls])]

\* Mutant: the except branch resets the registry.
UploadFile_ResetsOnError(acc, path, out) ==
    IF out.raises \/ ~Has(out.result, "file_id") \/ ~Has(out.result, "filename")
    THEN [UploadFailed(acc, path, "Error") EXCEPT !.reg = EmptyDict]
    ELSE UploadPolled(acc, out)

\* One pass of the for loop (lines 64-88) for the file at `path` with backend
\* behaviour `out`.
UploadFile(acc, path, out) ==
    IF out.raises THEN UploadFailed(acc, path, "HTTPError")
    ELSE IF ~Has(out.result, "file_id") \/ ~Has(out.result, "filename")
    THEN UploadFailed(acc, path, "KeyError")
    ELSE UploadPolled(acc, out)

RECURSIVE UploadLoop(_, _, _, _)
UploadLoop(acc, files, outs, i) ==
    IF i > Len(files) THEN acc
    ELSE UploadLoop(UploadFile(acc, files[i], outs[i]), files, outs, i + 1)

\* Lines 91-92: the (filename, file_id) pairs of the completed registry entries.
\* Reading a key an entry lacks raises KeyError.
UploadChoicesRaise(reg) ==
    \E info \in Values(reg) :
        \/ ~Has(info, "status")
        \/ info.status = "completed" /\ (~Has(info, "filename") \/ ~Has(info, "file_id"))
UploadChoices(reg) ==
    {<<info.filename, info.file_id>> :
        info \in {v \in Values(reg) : v.status = "completed"}}

\* create_file_list, lines 111-125
Emoji(status) ==
    CASE status = "completed" -> "check"
      [] status = "processing" -> "cycle"
      [] status = "pending" -> "hourglass"
      [] status = "failed" -> "cross"
      [] OTHER -> "question"
create_file_list_raises(reg) ==
    \E info \in Values(reg) : ~Has(info, "status") \/ ~Has(info, "filename")
create_file_list(reg) ==
    IF DOMAIN reg = {} THEN [text |-> "No files uploaded"]
    ELSE [lines |-> {[emoji |-> Emoji(info.status), filename |-> info.filename,
           status |-> info.status] : info \in Values(reg)}]

\* The files of a batch are distinct local paths, named by their position.
Batches == {[i \in 1..n |-> i] : n \in 0..MaxBatch}

upload_multiple(files, outs) ==
    /\ sent' = <<>>
    /\ IF files = <<>>
       THEN \* Line 59 returns two values to the three outputs wired at line
            \* 242: the framework writes the two it was given, or rejects the
            \* short tuple and writes none.
            \E applied \in BOOLEAN :
            /\ file_checkboxes' = IF applied THEN {} ELSE file_checkboxes
            /\ last' = IF applied
                       THEN [op |-> "upload_multiple", files |-> files, outs |-> outs,
                             log |-> <<>>, status_msgs |-> <<>>, raised |-> FALSE,
                             status_output |-> [text |-> "No files selected"]]
                       ELSE [op |-> "upload_multiple", files |-> files, outs |-> outs,
                             log |-> <<>>, status_msgs |-> <<>>, raised |-> TRUE]
            /\ UNCHANGED uploaded_files
       ELSE \E acc \in {UploadLoop([reg |-> uploaded_files, msgs |-> <<>>, log |-> <<>>],
                                   files, outs, 1)} :
            /\ uploaded_files' = acc.reg
            /\ IF UploadChoicesRaise(acc.reg) \/ create_file_list_raises(acc.reg)
               THEN \* KeyError leaves the handler: no output is written
                    /\ last' = [op |-> "upload_multiple", files |-> files,
                                outs |-> outs, log |-> acc.log, status_msgs |-> acc.msgs,
                                raised |-> TRUE]
                    /\ UNCHANGED file_checkboxes
               ELSE /\ last' = [op |-> "upload_multiple", files |-> files,
                                outs |-> outs, log |-> acc.log, status_msgs |-> acc.msgs,
                                raised |-> FALSE,
                                status_output |-> [lines |-> acc.msgs],
                                files_display |-> create_file_list(acc.reg)]
                    /\ file_checkboxes' = UploadChoices(acc.reg)

UploadMultipleOf(batches, outcomes) ==
    /\ \E files \in batches :
         \E outs \in [1..Len(files) -> outcomes] : upload_multiple(files, outs)
    /\ UNCHANGED <<chat_history, selected_files, chatbot>>
    /\ UNCHANGED <<pollVars, asyncVars>>

UploadMultiple == UploadMultipleOf(Batches, UploadOutcomes)


---------------------------------------------------------------------------
(* refresh_files, lines 96-109 *)

\* An entry of the body client.list_files returns: {file_id, filename, status},
\* or one with a key missing.
GoodListEntries == [file_id : FileIds, filename : Names, status : Statuses]
ListEntries ==
    GoodListEntries \cup
    {Drop(f, k) : f \in {g \in GoodListEntries : g.status = "completed"},
                  k \in {"file_id", "filename", "status"}}
\* The backend issues the identifiers: no two entries of a list share one.
DistinctIds(files) ==
    \A i, j \in 1..Len(files) :
        (i # j /\ Has(files[i], "file_id") /\ Has(files[j], "file_id"))
            => files[i].file_id # files[j].file_id
\* The outcomes of client.list_files: it raises, or returns a list.
ListResponses ==
    {[raises |-> TRUE]} \cup
    [raises : {FALSE}, files : {l \in SeqsUpTo(ListEntries, MaxList) : DistinctIds(l)}]

\* Lines 103-104: for f in files: uploaded_files[f['file_id']] = f, from entry i
\* on. The loop stops at the first entry without a file_id (KeyError).
RECURSIVE RefreshLoop(_, _, _)
RefreshLoop(reg, files, i) ==
    IF i > Len(files) THEN [reg |-> reg, raised |-> FALSE]
    ELSE IF ~Has(files[i], "file_id") THEN [reg |-> reg, raised |-> TRUE]
    ELSE RefreshLoop(Put(reg, files[i].file_id, files[i]), files, i + 1)

\* Line 106: the (filename, file_id) pairs of the completed entries of the list.
RefreshChoicesRaise(files) ==
    \E i \in 1..Len(files) :
        \/ ~Has(files[i], "status")
        \/ files[i].status = "completed" /\ ~Has(files[i], "filename")
RefreshChoices(files) ==
    {<<files[i].filename, files[i].file_id>> :
        i \in {j \in 1..Len(files) : files[j].status = "completed"}}

\* Mutant: the entries held before the refresh are kept.
clear_KeepsEntries(reg) == reg

\* Line 101: uploaded_files.clear().
clear(reg) == EmptyDict

refresh_files(resp) ==
    /\ sent' = <<>>
    /\ IF resp.raises
       THEN \* list_files raised before the registry was touched
            /\ last' = [op |-> "refresh_files", raised |-> TRUE, failed |-> TRUE,
                        files_display |-> [text |-> "Refresh failed"]]
            /\ UNCHANGED <<uploaded_files, file_checkboxes>>
       ELSE \* uploaded_files.clear(), then the loop
            \E loop \in {RefreshLoop(clear(uploaded_files), resp.files, 1)} :
            /\ uploaded_files' = loop.reg
            /\ IF \/ loop.raised
                  \/ RefreshChoicesRaise(resp.files)
                  \/ create_file_list_raises(loop.reg)
               THEN \* line 109: "Refresh failed", gr.update()
                    /\ last' = [op |-> "refresh_files", raised |-> FALSE,
                                failed |-> TRUE, files |-> resp.files,
                                files_display |-> [text |-> "Refresh failed"]]
                    /\ UNCHANGED file_checkboxes
               ELSE /\ last' = [op |-> "refresh_files", raised |-> FALSE,
                                failed |-> FALSE, files |-> resp.files,
                                files_display |-> create_file_list(loop.reg)]
                    /\ file_checkboxes' = RefreshChoices(resp.files)

RefreshFilesOf(responses) ==
    /\ \E resp \in responses : refresh_files(resp)
    /\ UNCHANGED <<chat_history, selected_files, chatbot>>
    /\ UNCHANGED <<pollVars, asyncVars>>

RefreshFiles == RefreshFilesOf(ListResponses)

---------------------------------------------------------------------------
(* update_selected_files, lines 127-131 *)

\* The ids the CheckboxGroup offers; the component hands the handler a list of
\* offered values, or None.
Offered == {c[2] : c \in file_checkboxes}

update_selected_files(files) ==
    /\ selected_files' = IF Has(files, "none") \/ files.value = {} THEN {}
                          ELSE files.value
    /\ last' = [op |-> "update_selected_files",
                file_count |-> Cardinality(selected_files')]
    /\ sent' = <<>>

UpdateSelectedFiles ==
    /\ \E files \in {[none |-> TRUE]} \cup [value : SUBSET Offered] :
         update_selected_files(files)
    /\ UNCHANGED <<uploaded_files, chat_history, file_checkboxes, chatbot>>
    /\ UNCHANGED <<pollVars, asyncVars>>

---------------------------------------------------------------------------
(* send_message, lines 133-170, and format_chat_response, lines 172-182 *)

Messages == SeqsUpTo(Chars, MaxMsgLen)

\* str.strip(): the text without its leading and trailing whitespace.
RECURSIVE lstrip(_)
lstrip(s) == IF s # <<>> /\ Head(s) \in Whitespace THEN lstrip(Tail(s)) ELSE s
RECURSIVE rstrip(_)
rstrip(s) ==
    IF s # <<>> /\ s[Len(s)] \in Whitespace THEN rstrip(SubSeq(s, 1, Len(s) - 1)) ELSE s
\* Mutant: the text is tested as typed.
strip_Nothing(s) == s

strip(s) == rstrip(lstrip(s))

\* A source of a chat response: {filename, page, excerpt}, the excerpt given
\* by its length; or one with the page missing.
GoodSources == [filename : Names, page : {4}, excerpt : {ExcerptCap + 10}]
Sources == GoodSources \cup {Drop(src, "page") : src \in GoodSources}
\* The outcomes of client.chat: it raises, or returns a body
\* {answer, sources?}, or a body without the answer.
GoodChatResults ==
    {[answer |-> Answer]} \cup [answer : {Answer}, sources : SeqsUpTo(Sources, MaxSources)]
ChatResults == GoodChatResults \cup {Drop([answer |-> Answer], "answer")}
ChatResponses == {[raises |-> TRUE]} \cup [raises : {FALSE}, body : ChatResults]

FormatRaises(result) ==
    \/ ~Has(result, "answer")
    \/ /\ Has(result, "sources")
       /\ \E i \in 1..Min(Len(result.sources), SourceCap) :
             \E k \in {"filename", "page", "excerpt"} : ~Has(result.sources[i], k)
format_chat_response(result) ==
    IF Has(result, "sources") /\ result.sources # <<>>
    THEN [answer |-> result.answer,
          cited |-> [i \in 1..Min(Len(result.sources), SourceCap) |->
                         [n |-> i, filename |-> result.sources[i].filename,
                          page |-> result.sources[i].page,
                          excerpt |-> Min(result.sources[i].excerpt, ExcerptCap)]]]
    ELSE [answer |-> result.answer]

Turn(role, content) == [role |-> role, content |-> content]
ErrorTurn(e) == Turn("assistant", [error |-> e])

\* What the handler did, what it was given, and the text it returned for
\* msg_input.
Sent(message, outcome, text) ==
    [op |-> "send_message", message |-> message, outcome |-> outcome,
     msg_input |-> text]

UserTurn(message) == Turn("user", [text |-> message])

\* Mutant: the error turn replaces the user's turn in the chatbot history.
ChatFailed_DropsUserTurn(message, history, outcome, e) ==
    /\ chatbot' = Append(history, ErrorTurn(e))
    /\ last' = Sent(message, outcome, e)

\* Lines 168-170: the except branch, new_history[:-1] + [error_response].
ChatFailed(message, history, outcome, e) ==
    /\ chatbot' = history \o <<UserTurn(message), ErrorTurn(e)>>
    /\ last' = Sent(message, outcome, e)

\* Mutant: only the assistant's turn is recorded.
ChatAnswered_ForgetsUserTurn(message, history, result) ==
    /\ chat_history' = Append(chat_history, Turn("assistant", [answer |-> result.answer]))
    /\ IF FormatRaises(result)
       THEN ChatFailed(message, history, "format_raised", "KeyError: source")
       ELSE /\ chatbot' = history \o
                  <<UserTurn(message), Turn("assistant", format_chat_response(result))>>
            /\ last' = Sent(message, "answered", "")

\* Lines 158-166, once client.chat returned a body with an answer.
ChatAnswered(message, history, result) ==
    /\ chat_history' = chat_history \o
          <<UserTurn(message), Turn("assistant", [answer |-> result.answer])>>
    /\ IF FormatRaises(result)
       THEN ChatFailed(message, history, "format_raised", "KeyError: source")
       ELSE /\ chatbot' = history \o
                  <<UserTurn(message), Turn("assistant", format_chat_response(result))>>
            /\ last' = Sent(message, "answered", "")

\* Mutant: only the new turn is sent.
Payload_NewTurnOnly(message) ==
    [file_ids |-> selected_files, messages |-> <<UserTurn(message)>>]

\* Lines 152-155: the arguments of client.chat.
Payload(message) ==
    [file_ids |-> selected_files, messages |-> Append(chat_history, UserTurn(message))]

\* Mutant: a failed call resets the transcript.
ChatRoundTrip_ResetsOnFailure(message, history, resp) ==
    /\ sent' = <<Payload(message)>>
    /\ IF resp.raises
       THEN /\ chat_history' = <<>>
            /\ ChatFailed(message, history, "chat_raised", "HTTPError")
       ELSE IF ~Has(resp.body, "answer")
       THEN /\ chat_history' = <<UserTurn(message)>>
            /\ ChatFailed(message, history, "no_answer", "KeyError: answer")
       ELSE ChatAnswered(message, history, resp.body)

\* Lines 143-170, once the message and the selection passed the checks.
ChatRoundTrip(message, history, resp) ==
    /\ sent' = <<Payload(message)>>
    /\ IF resp.raises
       THEN /\ UNCHANGED chat_history
            /\ ChatFailed(message, history, "chat_raised", "HTTPError")
       ELSE IF ~Has(resp.body, "answer")
       THEN \* line 158 ran, line 159 raised KeyError
            /\ chat_history' = Append(chat_history, UserTurn(message))
            /\ ChatFailed(message, history, "no_answer", "KeyError: answer")
       ELSE ChatAnswered(message, history, resp.body)

\* Mutant: the selection is not checked.
send_message_NoSelectionCheck(message, history, resp) ==
    IF strip(message) = <<>>
    THEN /\ chatbot' = history
         /\ sent' = <<>>
         /\ last' = Sent(message, "blank", "")
         /\ UNCHANGED chat_history
    ELSE ChatRoundTrip(message, history, resp)

send_message(message, history, resp) ==
    IF strip(message) = <<>>
    THEN /\ chatbot' = history
         /\ sent' = <<>>
         /\ last' = Sent(message, "blank", "")
         /\ UNCHANGED chat_history
    ELSE IF selected_files = {}
    THEN /\ chatbot' = history
         /\ sent' = <<>>
         /\ last' = Sent(message, "no_selection", WARNING)
         /\ UNCHANGED chat_history
    ELSE ChatRoundTrip(message, history, resp)

\* The handler runs on the message typed and the chatbot's current value. The
\* backend's answer matters only when the call is issued.
SendMessage ==
    /\ \E message \in Messages :
         IF strip(message) = <<>> \/ selected_files = {}
         THEN send_message(message, chatbot, [raises |-> TRUE])
         ELSE /\ Len(chatbot) < 2 * MaxTurns
              /\ \E resp \in ChatResponses : send_message(message, chatbot, resp)
    /\ UNCHANGED <<uploaded_files, selected_files, file_checkboxes>>
    /\ UNCHANGED <<pollVars, asyncVars>>

---------------------------------------------------------------------------
(* clear_chat, lines 184-188 *)

\* Mutant: only the displayed history is emptied.
clear_chat_KeepsTranscript ==
    /\ UNCHANGED chat_history
    /\ chatbot' = <<>>
    /\ last' = [op |-> "clear_chat", dropped |-> Len(chat_history)]
    /\ sent' = <<>>

\* The record of the call keeps how many turns the transcript held.
clear_chat ==
    /\ chat_history' = <<>>
    /\ chatbot' = <<>>
    /\ last' = [op |-> "clear_chat", dropped |-> Len(chat_history)]
    /\ sent' = <<>>

\* Mutant: a new chat starts with nothing selected.
ClearChat_ResetsSelection ==
    /\ clear_chat
    /\ selected_files' = {}
    /\ UNCHANGED <<uploaded_files, file_checkboxes>>
    /\ UNCHANGED <<pollVars, asyncVars>>

ClearChat ==
    /\ clear_chat
    /\ UNCHANGED <<uploaded_files, selected_files, file_checkboxes>>
    /\ UNCHANGED <<pollVars, asyncVars>>

---------------------------------------------------------------------------
(* The application: the state after the module is loaded and the UI built
   (lines 40-43, 211-225), and one handler at a time. *)

Init ==
    /\ uploaded_files = EmptyDict
    /\ chat_history = <<>>
    /\ selected_files = {}
    /\ file_checkboxes = {}
    /\ chatbot = <<>>
    /\ last = [op |-> "init"]
    /\ sent = <<>>
    /\ pollI = 0
    /\ pollCalls = 0
    /\ pollAns = None
    /\ pollRet = Sleep
    /\ inflight = {}
    /\ accepted = 0

Next ==
    \/ UploadMultiple
    \/ RefreshFiles
    \/ UpdateSelectedFiles
    \/ SendMessage
    \/ ClearChat

Spec == Init /\ [][Next]_vars

\* The two halves of the application. upload_multiple and refresh_files read and
\* write only uploaded_files and file_checkboxes; send_message and clear_chat
\* leave those two alone; update_selected_files carries offered ids from the
\* first half to the second.

\* The file manager: uploads and refreshes, with every backend outcome.
NextFiles == UploadMultiple \/ RefreshFiles
SpecFiles == Init /\ [][NextFiles]_vars

\* The chat: selection changes, sends and clears, over files that were uploaded
\* one at a time and completed at the first status poll.
UploadCompleted ==
    UploadMultipleOf({<<1>>},
                     {o \in UploadOutcomes :
                        /\ ~o.raises /\ o.result \in GoodUploadResults
                        /\ o.backend = [head |-> <<>>, tail |-> "completed"]})
NextChat == UploadCompleted \/ UpdateSelectedFiles \/ SendMessage \/ ClearChat
SpecChat == Init /\ [][NextChat]_vars

\* The selection against a registry that moves: files uploaded one at a time
\* whose polling ends at the first status call, completed or failed; refreshes
\* that raise or list well-formed entries; selection changes among the offered
\* ids; and sends.
UploadSettled ==
    UploadMultipleOf({<<1>>},
                     {o \in UploadOutcomes :
                        /\ ~o.raises /\ o.result \in GoodUploadResults
                        /\ o.backend.head = <<>>
                        /\ o.backend.tail \in {"completed", "failed"}})
RefreshListed ==
    RefreshFilesOf({resp \in ListResponses :
                      resp.raises \/ \A i \in 1..Len(resp.files) :
                                        resp.files[i] \in GoodListEntries})
NextSelect == UploadSettled \/ RefreshListed \/ UpdateSelectedFiles \/ SendMessage
SpecSelect == Init /\ [][NextSelect]_vars

---------------------------------------------------------------------------
(* send_message run interleaved with other handlers. Nothing in the module
   serialises the handlers (no lock, no queue setting at lines 191 or 274): a
   handler that is waiting for client.chat (line 155) does not keep another
   event from running its handler, and two handlers that run in different
   threads can be switched between any two statements. send_message is cut
   where another handler can come in between: at the call of line 155 and
   between the appends of lines 158 and 159. *)

\* The dicts built at lines 144 and 159 are objects of their call: the turns
\* of call n carry n.
CallTurn(role, n, body) == [role |-> role, content |-> [call |-> n, body |-> body]]

\* The outcomes of client.chat for one call: it raises, or returns an answer.
AsyncResponses == {[raises |-> TRUE], [raises |-> FALSE, body |-> [answer |-> Answer]]}

\* Lines 133-155: the checks pass and the request is issued.
SendBegin ==
    /\ accepted < MaxCalls
    /\ selected_files # {}
    /\ \E message \in Messages :
         /\ strip(message) # <<>>
         /\ sent' = <<Payload(message)>>
         /\ inflight' = inflight \cup
               {[call |-> accepted + 1, message |-> message, history |-> chatbot,
                 pc |-> "waiting"]}
         /\ last' = [op |-> "send_message", message |-> message,
                     outcome |-> "waiting", call |-> accepted + 1]
    /\ accepted' = accepted + 1
    /\ UNCHANGED <<uploaded_files, chat_history, selected_files, file_checkboxes, chatbot>>
    /\ UNCHANGED pollVars

\* Line 155 returns or raises. On a response, line 158 appends the user turn;
\* on an exception, lines 168-170 return the error for the display.
SendRespond ==
    \E c \in inflight, resp \in AsyncResponses :
        /\ c.pc = "waiting"
        /\ IF resp.raises
           THEN /\ inflight' = inflight \ {c}
                /\ chatbot' = c.history \o
                      <<CallTurn("user", c.call, c.message), ErrorTurn("HTTPError")>>
                /\ last' = [op |-> "send_message", message |-> c.message,
                            outcome |-> "chat_raised", call |-> c.call]
                /\ UNCHANGED chat_history
           ELSE /\ inflight' = (inflight \ {c}) \cup {[c EXCEPT !.pc = "appending"]}
                /\ chat_history' =
                      Append(chat_history, CallTurn("user", c.call, c.message))
                /\ last' = [op |-> "send_message", message |-> c.message,
                            outcome |-> "appending", call |-> c.call]
                /\ UNCHANGED chatbot
        /\ sent' = <<>>
        /\ UNCHANGED <<uploaded_files, selected_files, file_checkboxes, accepted>>
        /\ UNCHANGED pollVars

\* Lines 159-166: the assistant turn is appended and the new display returned.
SendFinish ==
    \E c \in inflight :
        /\ c.pc = "appending"
        /\ inflight' = inflight \ {c}
        /\ chat_history' = Append(chat_history, CallTurn("assistant", c.call, Answer))
        /\ chatbot' = c.history \o
              <<CallTurn("user", c.call, c.message), CallTurn("assistant", c.call, Answer)>>
        /\ last' = [op |-> "send_message", message |-> c.message,
                    outcome |-> "answered", call |-> c.call]
        /\ sent' = <<>>
        /\ UNCHANGED <<uploaded_files, selected_files, file_checkboxes, accepted>>
        /\ UNCHANGED pollVars

NextAsync ==
    \/ UploadCompleted
    \/ UpdateSelectedFiles
    \/ SendBegin
    \/ SendRespond
    \/ SendFinish
    \/ ClearChat
SpecAsync == Init /\ [][NextAsync]_vars

---------------------------------------------------------------------------
(* poll_file_status on its own, one pass of its loop per step, against a
   backend free to give any answer to every status call. *)

PollPass ==
    /\ ~pollRet.returned
    /\ pollI < max_wait
    /\ \E answer \in Answers :
         /\ pollAns' = answer
         /\ pollRet' = PollBody(answer)
    /\ pollI' = pollI + 1
    /\ pollCalls' = pollCalls + 1
    /\ UNCHANGED <<appVars, asyncVars>>

PollExhausted ==
    /\ ~pollRet.returned
    /\ pollI = max_wait
    /\ pollRet' = Return("timeout", FALSE)
    /\ UNCHANGED <<pollI, pollCalls, pollAns>>
    /\ UNCHANGED <<appVars, asyncVars>>

NextPoll == PollPass \/ PollExhausted

\* The loop is straight-line code: a pass that can run does run.
SpecPoll == Init /\ [][NextPoll]_vars /\ WF_vars(NextPoll)


---------------------------------------------------------------------------
(* Properties *)

IsUpload(l) == l.op = "upload_multiple" /\ l.files # <<>>
IsSend(l) == l.op = "send_message"
Registered(out) == ~out.raises /\ out.result \in GoodUploadResults

\* The registry ids whose last-known status is exactly 'completed'.
CompletedIds ==
    {id \in DOMAIN uploaded_files :
        /\ Has(uploaded_files[id], "status")
        /\ uploaded_files[id].status = "completed"}

\* How the polling of a scripted backend ends: the first 'completed' or
\* 'failed' among its first max_wait answers, or "timeout" when there is none.
PollEnd(backend) ==
    LET terminal == {i \in 1..max_wait :
                        get_file_status(backend, i) \in {"completed", "failed"}}
    IN  IF terminal = {} THEN "timeout"
        ELSE get_file_status(backend, CHOOSE i \in terminal : \A j \in terminal : i <= j)

\* A text that is empty or holds whitespace only.
IsBlank(message) == \A i \in 1..Len(message) : message[i] \in Whitespace

\* C1 (as claimed): in every reachable state the ids offered as checkbox
\* choices are ids whose last-known registry status is 'completed'.
C1_OfferedAreCompleted == Offered \subseteq CompletedIds

\* The lines upload_multiple built for the files of its batch: one per input
\* file, in input order: READY for a file that was registered and whose polling
\* ended completed, FAILED for one whose polling ended failed or ran out, ERROR
\* for one whose upload call raised or returned a malformed body.
StatusMsgsPerFile ==
    IsUpload(last) =>
        /\ Len(last.status_msgs) = Len(last.files)
        /\ \A i \in 1..Len(last.files) :
             LET line == last.status_msgs[i]
                 out == last.outs[i]
             IN  IF Registered(out)
                 THEN /\ line.mark = (IF PollEnd(out.backend) = "completed"
                                      THEN "READY" ELSE "FAILED")
                      /\ line.name = out.result.filename
                 ELSE /\ line.mark = "ERROR"
                      /\ line.path = last.files[i]

\* C2 (as claimed): upload_multiple on a non-empty batch, whatever happened to
\* each file, returns a report that has exactly one line per input file, in
\* input order, READY lines apart from FAILED and ERROR lines.
C2_ReportPerFile ==
    IsUpload(last) =>
        /\ ~last.raised
        /\ last.status_output = [lines |-> last.status_msgs]
        /\ StatusMsgsPerFile

\* File i of the last batch is the last one of the batch registered under its id.
LastForId(i) ==
    \A j \in (i + 1)..Len(last.files) :
        Registered(last.outs[j]) => last.outs[j].result.file_id # last.outs[i].result.file_id

\* C3 (as claimed): a file whose polling ran out of attempts is told apart from
\* a failed one: its report line is not the FAILED line, or the status recorded
\* for it in the registry is not 'failed'.
C3_TimeoutDistinctFromFailed ==
    IsUpload(last) =>
        \A i \in 1..Len(last.files) :
            (Registered(last.outs[i]) /\ PollEnd(last.outs[i].backend) = "timeout") =>
                \/ last.status_msgs[i].mark # "FAILED"
                \/ /\ LastForId(i)
                   /\ uploaded_files[last.outs[i].result.file_id].status # "failed"

\* C4: poll_file_status issues at most max_wait status calls and returns; the
\* pass whose call answers 'completed' returns success, the pass whose call
\* answers 'failed' returns failure, and no call follows a return.
C4_PollBoundedShortCircuit ==
    /\ [](pollCalls <= max_wait)
    /\ <>(pollRet.returned)
    /\ [][(pollCalls' # pollCalls /\ pollAns' = "completed")
            => pollRet' = [returned |-> TRUE, status |-> "completed", success |-> TRUE]]_vars
    /\ [][(pollCalls' # pollCalls /\ pollAns' = "failed")
            => pollRet' = [returned |-> TRUE, status |-> "failed", success |-> FALSE]]_vars
    /\ [][pollRet.returned => (pollCalls' = pollCalls /\ pollRet' = pollRet)]_vars

\* C4 witness: the loop returned success on a later pass, before the bound.
C4_Witness ==
    /\ pollRet.returned /\ pollRet.success
    /\ pollCalls > 1 /\ pollCalls < max_wait

\* The ids of the upload bodies of a batch that carried a file_id.
ReturnedIds(l) ==
    {l.outs[i].result.file_id :
        i \in {j \in 1..Len(l.files) :
                 ~l.outs[j].raises /\ Has(l.outs[j].result, "file_id")}}

\* C5: upload_multiple adds or overwrites registry entries only under ids its
\* upload calls returned; every other entry, present or absent, is as before
\* (so a batch whose upload calls all raised leaves the registry as it was).
C5_RegistryOnlyForUploaded ==
    [][IsUpload(last') =>
          \A id \in (DOMAIN uploaded_files \cup DOMAIN uploaded_files') \ ReturnedIds(last') :
              /\ id \in DOMAIN uploaded_files
              /\ id \in DOMAIN uploaded_files'
              /\ uploaded_files'[id] = uploaded_files[id]]_vars

\* C5 witness: a batch whose first upload raised and whose second was
\* registered, with an older entry under the other id still in the registry.
C5_Witness ==
    /\ IsUpload(last) /\ Len(last.files) = 2
    /\ last.outs[1].raises
    /\ Registered(last.outs[2])
    /\ DOMAIN uploaded_files = FileIds

\* C6 (as claimed): send_message with an empty selection issues no client.chat
\* call and returns the warning, for any message.
C6_EmptySelectionWarns ==
    (IsSend(last) /\ selected_files = {}) =>
        (sent = <<>> /\ last.msg_input = WARNING)

\* C6 (amended): send_message with an empty selection issues no client.chat
\* call for any message; it returns the warning when the message is not blank,
\* and an empty text without warning when it is.
C6_EmptySelectionRejected ==
    (IsSend(last) /\ selected_files = {}) =>
        /\ sent = <<>>
        /\ last.msg_input = (IF IsBlank(last.message) THEN "" ELSE WARNING)

\* C6 witness: a non-blank message was sent with nothing selected.
C6_Witness ==
    /\ IsSend(last) /\ selected_files = {}
    /\ ~IsBlank(last.message)
    /\ last.msg_input = WARNING

\* C7: send_message with an empty or whitespace-only message issues no
\* client.chat call and leaves chat_history and the chatbot history as they were.
C7_BlankMessageIgnored ==
    [][(IsSend(last') /\ IsBlank(last'.message)) =>
          /\ sent' = <<>>
          /\ chat_history' = chat_history
          /\ chatbot' = chatbot]_vars

\* C7 witness: a whitespace message was sent with files selected and a
\* conversation under way.
C7_Witness ==
    /\ IsSend(last) /\ IsBlank(last.message) /\ last.message # <<>>
    /\ selected_files # {}
    /\ chat_history # <<>>

\* The round-trips in which client.chat returned a body with an answer.
Answered(l) == IsSend(l) /\ l.outcome \in {"answered", "format_raised"}

\* C8: after a round-trip in which client.chat returned an answer, chat_history
\* has grown by the user turn with the message then the assistant turn with
\* the answer, and the chatbot history by that user turn then one assistant turn.
C8_SuccessAppendsTwo ==
    [][Answered(last') =>
          /\ chat_history' = chat_history \o
                <<[role |-> "user", content |-> [text |-> last'.message]],
                  [role |-> "assistant", content |-> [answer |-> Answer]]>>
          /\ Len(chatbot') = Len(chatbot) + 2
          /\ SubSeq(chatbot', 1, Len(chatbot)) = chatbot
          /\ chatbot'[Len(chatbot) + 1] =
                [role |-> "user", content |-> [text |-> last'.message]]
          /\ chatbot'[Len(chatbot) + 2].role = "assistant"]_vars

\* C8 witness: the second answered round-trip of a conversation.
C8_Witness ==
    /\ IsSend(last) /\ last.outcome = "answered"
    /\ Len(chat_history) = 4

\* C9 (as claimed): after a round-trip in which client.chat raised, the user's
\* turn is among at most two entries added to chat_history, and is in the
\* chatbot history.
C9_FailureKeepsUserTurn ==
    [][(IsSend(last') /\ last'.outcome = "chat_raised") =>
          LET user == [role |-> "user", content |-> [text |-> last'.message]]
          IN  /\ IsPrefix(chat_history, chat_history')
              /\ Len(chat_history') <= Len(chat_history) + 2
              /\ \E i \in (Len(chat_history) + 1)..Len(chat_history') :
                    chat_history'[i] = user
              /\ \E i \in (Len(chatbot) + 1)..Len(chatbot') : chatbot'[i] = user]_vars

\* C9 (amended): after a round-trip in which client.chat raised, chat_history
\* is unchanged; the chatbot history has grown by the user turn then an
\* assistant turn carrying the error, and the error text is returned as well.
C9_FailureShownNotRecorded ==
    [][(IsSend(last') /\ last'.outcome = "chat_raised") =>
          /\ chat_history' = chat_history
          /\ chatbot' = chatbot \o
                <<[role |-> "user", content |-> [text |-> last'.message]],
                  [role |-> "assistant", content |-> [error |-> last'.msg_input]]>>
          /\ last'.msg_input # ""]_vars

\* C9 witness: client.chat raised in the middle of a conversation.
C9_Witness ==
    /\ IsSend(last) /\ last.outcome = "chat_raised"
    /\ chat_history # <<>>
    /\ Len(chatbot) = Len(chat_history) + 2

\* C10: every send_message call leaves the old chat_history as a prefix of the
\* new one; a step that does not is a clear_chat.
C10_AppendOnly ==
    [][/\ IsSend(last') => IsPrefix(chat_history, chat_history')
       /\ ~IsPrefix(chat_history, chat_history') => last'.op = "clear_chat"]_vars

\* C10 witness: a response without an answer arrived in the middle of a
\* conversation, and the earlier turns are still there.
C10_Witness ==
    /\ IsSend(last) /\ last.outcome = "no_answer"
    /\ Len(chat_history) = 3

\* C11: clear_chat empties chat_history whatever came before; the transcript
\* stays empty until a send is accepted (rejected sends, uploads and selection
\* changes leave it alone); and a send accepted on the empty transcript sends a
\* payload whose messages are exactly the one new user turn.
C11_ClearThenFreshPayload ==
    /\ [][last'.op = "clear_chat" => chat_history' = <<>>]_vars
    /\ [][(last'.op \notin {"send_message", "clear_chat"} \/ (IsSend(last') /\ sent' = <<>>))
            => chat_history' = chat_history]_vars
    /\ [][(IsSend(last') /\ sent' # <<>> /\ chat_history = <<>>)
            => sent'[1].messages =
                  <<[role |-> "user", content |-> [text |-> last'.message]]>>]_vars

\* C11 witness: clear_chat ran on a transcript of two round-trips.
C11_Witness ==
    /\ last.op = "clear_chat" /\ last.dropped = 4
    /\ chat_history = <<>>

IsRefresh(l) == l.op = "refresh_files"

\* C12: after a refresh_files call that did not fail, the ids of the registry
\* are exactly the ids of the list response, and the entry under each is the
\* listed one, with its name and status.
C12_RegistryIsTheList ==
    (IsRefresh(last) /\ ~last.failed) =>
        /\ DOMAIN uploaded_files = {last.files[i].file_id : i \in 1..Len(last.files)}
        /\ \A i \in 1..Len(last.files) :
             LET info == uploaded_files[last.files[i].file_id]
             IN  /\ info.filename = last.files[i].filename
                 /\ info.status = last.files[i].status

\* C12 witness: a refresh that did not fail listed two files, one failed and
\* one still processing.
C12_Witness ==
    /\ IsRefresh(last) /\ ~last.failed
    /\ Len(last.files) = 2
    /\ last.files[1].status = "failed" /\ last.files[2].status = "processing"

\* C13: a clear_chat call leaves the registry uploaded_files and the selection
\* selected_files as they were.
C13_ClearKeepsFilesAndSelection ==
    [][last'.op = "clear_chat" =>
          /\ uploaded_files' = uploaded_files
          /\ selected_files' = selected_files]_vars

\* C13 witness: clear_chat ran on a conversation, with two files registered
\* and both selected.
C13_Witness ==
    /\ last.op = "clear_chat" /\ last.dropped > 0
    /\ DOMAIN uploaded_files = FileIds
    /\ selected_files = FileIds

\* C14: a send_message call that passes the two checks issues exactly one
\* client.chat call, and every call issued carries the current selection as
\* file_ids and, as messages, the whole of chat_history as it stood, in order,
\* followed by the new user turn.
C14_PayloadIsSelectionAndTranscript ==
    [][IsSend(last') =>
          /\ last'.outcome \notin {"blank", "no_selection"} => Len(sent') = 1
          /\ \A i \in 1..Len(sent') :
                /\ sent'[i].file_ids = selected_files
                /\ sent'[i].messages = chat_history \o
                      <<[role |-> "user", content |-> [text |-> last'.message]]>>]_vars

\* C14 witness: a call issued with two files selected, after one answered
\* round-trip.
C14_Witness ==
    /\ IsSend(last) /\ Len(sent) = 1
    /\ sent[1].file_ids = FileIds
    /\ Len(sent[1].messages) = 3

\* The choices were rebuilt from the registry: what holds after an
\* upload_multiple call on a non-empty batch that returned, and after a
\* refresh_files call that did not fail.
ChoicesRebuilt ==
    ((IsUpload(last) /\ ~last.raised) \/ (IsRefresh(last) /\ ~last.failed))
        => Offered = CompletedIds

\* C15 (as claimed): after every upload_multiple call that returned, a call
\* with no files included, and after every refresh_files call that did not
\* fail, the offered ids are exactly the completed ids of the registry.
C15_OfferedAllCompleted ==
    ((last.op = "upload_multiple" /\ ~last.raised) \/ (IsRefresh(last) /\ ~last.failed))
        => Offered = CompletedIds

\* The status calls the polling of a scripted backend takes: up to its first
\* 'completed' or 'failed' answer, or max_wait when there is none.
PollCalls(backend) ==
    LET terminal == {i \in 1..max_wait :
                        get_file_status(backend, i) \in {"completed", "failed"}}
    IN  IF terminal = {} THEN max_wait
        ELSE CHOOSE i \in terminal : \A j \in terminal : i <= j

\* The status calls of a backend that raised, among the first n.
Raised(backend, n) == {i \in 1..n : get_file_status(backend, i) = "error"}

\* C16: for a registered file whose status calls raised at some attempts, the
\* polling went on past them, every raising call counting as one attempt of
\* the max_wait; the polling ended as the first 'completed' or 'failed' answer
\* says, and when that is 'completed' the file has the READY line and the
\* registry status 'completed'.
C16_StatusErrorsTolerated ==
    IsUpload(last) =>
        \A i \in 1..Len(last.files) :
            LET out == last.outs[i]
            IN  (Registered(out) /\ Raised(out.backend, PollCalls(out.backend)) # {}) =>
                    /\ last.log[i].calls = PollCalls(out.backend)
                    /\ last.log[i].poll = PollEnd(out.backend)
                    /\ PollEnd(out.backend) = "completed" =>
                          /\ last.status_msgs[i].mark = "READY"
                          /\ LastForId(i) =>
                                uploaded_files[out.result.file_id].status = "completed"

\* C16 witness: a file whose first status call raised and whose second
\* answered 'completed' is READY and completed in the registry.
C16_Witness ==
    /\ IsUpload(last) /\ Len(last.files) = 1
    /\ Registered(last.outs[1])
    /\ last.outs[1].backend = [head |-> <<"error">>, tail |-> "completed"]
    /\ last.log[1].calls = 2
    /\ last.status_msgs[1].mark = "READY"
    /\ uploaded_files[last.outs[1].result.file_id].status = "completed"

\* C18 (as claimed): in every state reached by handler calls run one at a
\* time, chat_history has even length and its turns alternate user, assistant,
\* starting with a user turn.
C18_TranscriptAlternates ==
    /\ Len(chat_history) % 2 = 0
    /\ \A i \in 1..Len(chat_history) :
          chat_history[i].role = (IF i % 2 = 1 THEN "user" ELSE "assistant")

\* C20 (as claimed): a refresh_files call that reports 'Refresh failed' leaves
\* the registry uploaded_files and the offered choices as they were.
C20_FailedRefreshChangesNothing ==
    [][(IsRefresh(last') /\ last'.failed) =>
          /\ uploaded_files' = uploaded_files
          /\ file_checkboxes' = file_checkboxes]_vars

\* C19 (as claimed): with update_selected_files only ever given offered ids,
\* every id that send_message passes to client.chat is, at the time of the
\* call, the id of a registry entry whose status is 'completed'.
C19_SentIdsAreCompleted ==
    IsSend(last) => \A i \in 1..Len(sent) : sent[i].file_ids \subseteq CompletedIds

\* C17 (as claimed): with handlers interleaved, the turns of chat_history are
\* in the order in which their send_message calls were accepted, and every
\* assistant turn comes directly after the user turn of its own call.
C17_TurnsInAcceptedOrder ==
    \A i \in 1..Len(chat_history) :
        /\ \A j \in 1..(i - 1) :
              chat_history[j].content.call <= chat_history[i].content.call
        /\ chat_history[i].role = "assistant" =>
              /\ i > 1
              /\ chat_history[i - 1].role = "user"
              /\ chat_history[i - 1].content.call = chat_history[i].content.call

=============================================================================
